---- MODULE Spec2Model ----
(***************************************************************************)
(* Model of web_uptime_monitor (src/web_uptime_monitor/src/main.rs):       *)
(* the health-check loop check_websites, the store it writes to, and the   *)
(* read path get_daily_stats / get_monthly_stats / fill_data_gaps /        *)
(* get_website_by_alias.  Times are seconds since the epoch, UTC.          *)
(***************************************************************************)
EXTENDS Integers, Sequences, FiniteSets, TLC

VARIABLES
    now,        \* the wall clock (Utc::now(), and the store's clock)
    websites,   \* table websites: sequence of Website rows, in insertion order
    logs,       \* table logs: sequence of rows [website, created_at, status, sweep]
    pc,         \* check_websites: the await it is suspended at, or "panicked"
    nextTick,   \* deadline of the next interval.tick()
    sweep,      \* number of sweeps started (ticks that fired)
    snapshot,   \* rows the sweep's SELECT returned
    res,        \* rows of the sweep's SELECT not yet taken by res.next()
    website,    \* loop variable `website` of the sweep
    response,   \* outcome of ctx.get(url).send() for `website`
    resp,       \* what the last served request returned to its caller
    advances,   \* number of clock steps taken so far
    edits       \* number of rows of table websites added or removed so far

vars == <<now, websites, logs, pc, nextTick, sweep, snapshot, res, website,
          response, resp, advances, edits>>

schedVars == <<pc, nextTick, sweep, snapshot, res, website, response>>

-----------------------------------------------------------------------------
(* Bounds of the model *)

MaxLogs == 3
MaxSweeps == 3
MaxAdvances == 2
MaxEdits == 1
MaxFocus == 5

-----------------------------------------------------------------------------
(* Option<i16> *)

None == <<>>
Some(x) == <<x>>

(* Result<T, E> *)
Ok(v) == [ok |-> TRUE, val |-> v]
Err(e) == [ok |-> FALSE, err |-> e]

Min(a, b) == IF a < b THEN a ELSE b

-----------------------------------------------------------------------------
(* Program constants *)

TickPeriod == 60
HourSeconds == 3600
DaySeconds == 86400
HourSplits == 24
DaySplits == 30
HourLimit == 24
DayLimit == 30
FillFrom == 1
FillTo == 24
SuccessStatus == 200

(* struct Website *)
Website(url, alias) == [url |-> url, alias |-> alias]

(* struct WebsiteStats *)
WebsiteStats(time, uptime_pct) == [time |-> time, uptime_pct |-> uptime_pct]

-----------------------------------------------------------------------------
(* Time *)

\* date_trunc('hour' | 'day', t) of the store; with_minute(0).with_second(0)
\* .with_nanosecond(0) and with_hour(0) on a DateTime<Utc> compute the same.
date_trunc(field, t) ==
    IF field = "hour" THEN t - (t % HourSeconds) ELSE t - (t % DaySeconds)

-----------------------------------------------------------------------------
(* The store's read queries *)

\* FROM logs LEFT JOIN websites ... WHERE websites.alias = $1
LogsOf(alias) == {i \in DOMAIN logs : logs[i].website = alias}

\* ORDER BY time ASC over a set of distinct times
RECURSIVE OrderAsc(_)
OrderAsc(S) ==
    IF S = {} THEN <<>>
    ELSE LET m == CHOOSE t \in S : \A u \in S : t <= u
         IN <<m>> \o OrderAsc(S \ {m})

\* the percentage rounded to the nearest integer instead of truncated
uptime_pct_rounded(alias, field, bucket) ==
    LET inBucket == {i \in LogsOf(alias) :
                        date_trunc(field, logs[i].created_at) = bucket}
        up == {i \in inBucket : logs[i].status = SuccessStatus}
    IN (2 * Cardinality(up) * 100 + Cardinality(inBucket)) \div (2 * Cardinality(inBucket))

\* COUNT(CASE WHEN status=200 THEN 1 END) * 100 / COUNT(*), integer division
uptime_pct(alias, field, bucket) ==
    LET inBucket == {i \in LogsOf(alias) :
                        date_trunc(field, logs[i].created_at) = bucket}
        up == {i \in inBucket : logs[i].status = SuccessStatus}
    IN (Cardinality(up) * 100) \div Cardinality(inBucket)

\* SELECT date_trunc(field, created_at) AS time, ... AS uptime_pct
\* GROUP BY time ORDER BY time ASC LIMIT limit
stats_query(alias, field, limit) ==
    LET times == {date_trunc(field, logs[i].created_at) : i \in LogsOf(alias)}
        asc == OrderAsc(times)
    IN [k \in 1..Min(limit, Len(asc)) |->
            WebsiteStats(asc[k], Some(uptime_pct(alias, field, asc[k])))]

-----------------------------------------------------------------------------
(* fill_data_gaps *)

\* data.sort_by(|a, b| b.time.cmp(&a.time)): stable, descending by time
RECURSIVE InsertDesc(_, _)
InsertDesc(sorted, x) ==
    IF sorted = <<>> THEN <<x>>
    ELSE IF Head(sorted).time >= x.time
         THEN <<Head(sorted)>> \o InsertDesc(Tail(sorted), x)
         ELSE <<x>> \o sorted

RECURSIVE sort_desc(_)
sort_desc(data) ==
    IF data = <<>> THEN <<>>
    ELSE InsertDesc(sort_desc(SubSeq(data, 1, Len(data) - 1)), data[Len(data)])

\* the candidate left at the instant of the clock, not aligned to its bucket
candidate_untruncated(format, no_of_seconds, clock, i) ==
    clock[i] - no_of_seconds * i

\* the candidates counted from the current bucket instead of one bucket back
candidate_from_zero(format, no_of_seconds, clock, i) ==
    LET time == clock[i] - no_of_seconds * (i - 1)
    IN IF format = "Day" THEN date_trunc("day", time) ELSE date_trunc("hour", time)

\* the candidate boundary of iteration i; clock[i] is that iteration's Utc::now()
candidate(format, no_of_seconds, clock, i) ==
    LET time == clock[i] - no_of_seconds * i
    IN IF format = "Day" THEN date_trunc("day", time) ELSE date_trunc("hour", time)

\* the loop without its check that the timestamp exists
RECURSIVE fill_loop_unchecked(_, _, _, _, _)
fill_loop_unchecked(data, format, no_of_seconds, clock, i) ==
    IF i >= FillTo THEN data
    ELSE fill_loop_unchecked(
            Append(data, WebsiteStats(candidate(format, no_of_seconds, clock, i), None)),
            format, no_of_seconds, clock, i + 1)

\* the body of `for i in 1..24`, from iteration i on
RECURSIVE fill_loop(_, _, _, _, _)
fill_loop(data, format, no_of_seconds, clock, i) ==
    IF i >= FillTo THEN data
    ELSE LET time == candidate(format, no_of_seconds, clock, i)
             pushed == IF \E k \in DOMAIN data : data[k].time = time
                       THEN data
                       ELSE Append(data, WebsiteStats(time, None))
         IN fill_loop(pushed, format, no_of_seconds, clock, i + 1)

\* the gaps filled into an empty vector: the placeholders replace the rows
fill_data_gaps_replacing(data, splits, format, no_of_seconds, clock) ==
    IF Len(data) < splits
    THEN sort_desc(fill_loop(<<>>, format, no_of_seconds, clock, FillFrom))
    ELSE data

fill_data_gaps(data, splits, format, no_of_seconds, clock) ==
    IF Len(data) < splits
    THEN sort_desc(fill_loop(data, format, no_of_seconds, clock, FillFrom))
    ELSE data

-----------------------------------------------------------------------------
(* SQL text.  A statement is the sequence of its tokens; a string literal  *)
(* is given by its source lines, each a sequence of tokens.  In a "..."    *)
(* literal a backslash at the end of a line removes the line break and the *)
(* indentation of the next line, so the last token of the line and the     *)
(* first token of the next line are adjacent in the text: two words fuse   *)
(* into one, a word and a punctuation mark stay two tokens.  An r#"..."#   *)
(* literal keeps its line breaks.                                          *)

Punctuation == {",", "(", ")", "=", "!="}

RECURSIVE continued_literal(_)
continued_literal(lines) ==
    IF Len(lines) = 0 THEN <<>>
    ELSE IF Len(lines) = 1 THEN lines[1]
    ELSE LET a == lines[1]
             b == lines[2]
             rest == SubSeq(lines, 3, Len(lines))
         IN IF a[Len(a)] \notin Punctuation /\ b[1] \notin Punctuation
            THEN continued_literal(
                    <<SubSeq(a, 1, Len(a) - 1) \o <<a[Len(a)] \o b[1]>> \o Tail(b)>>
                    \o rest)
            ELSE continued_literal(<<a \o b>> \o rest)

SqlWords ==
    {"SELECT", "AS", "FROM", "LEFT", "JOIN", "ON", "WHERE", "AND", "INSERT",
     "INTO", "VALUES", "where", "GROUP", "BY", "ORDER", "ASC", "LIMIT",
     "logs", "websites", "time", "id", "alias", "status", "website_alias",
     "logs.created_at", "logs.status", "logs.website_id", "websites.id",
     "websites.alias", "$1", "$2", "200"}

\* the server's parser: every token of the text is a word of the statement's
\* vocabulary or a punctuation mark ("logsLEFT" and "logs.website_idWHERE"
\* are neither, and the text around them is no statement)
parses(text) == \A k \in DOMAIN text : text[k] \in SqlWords \cup Punctuation

InsertLogSql ==
    continued_literal(<<
        <<"INSERT", "INTO", "logs", "(", "website_alias", ",", "status", ")">>,
        <<"VALUES">>,
        <<"(", "(", "SELECT", "id", "FROM", "websites", "where", "alias", "=",
          "$1", ")", ",", "$2", ")">> >>)

IncidentsSql ==
    continued_literal(<<
        <<"SELECT", "logs.created_at", "AS", "time", ",">>,
        <<"logs.status", "FROM", "logs">>,
        <<"LEFT", "JOIN", "websites", "ON", "websites.id", "=", "logs.website_id">>,
        <<"WHERE", "websites.alias", "=", "$1", "AND", "logs.status", "!=", "200">> >>)

-----------------------------------------------------------------------------
(* Store errors (sqlx::Error) *)

StoreDown == "Io"
RowNotFound == "RowNotFound"
SyntaxError == "Database(syntax error)"
ColumnNotFound == "ColumnNotFound(statis)"

\* the queries one request sends, in order
Queries == {"website", "daily", "monthly", "incidents"}

\* enum ApiError, impl From<sqlx::Error>
ApiError(e) == [SQLError |-> e]

\* impl IntoResponse for ApiError
into_response(e) == [status |-> 500, body |-> <<"SQL Error: ", e.SQLError>>]

\* the clock read by the iterations of one fill loop: it steps by one second
\* before iteration tickAt (0: it does not step during the loop)
Clock(tickAt) ==
    [i \in FillFrom..(FillTo - 1) |-> IF tickAt # 0 /\ i >= tickAt THEN now + 1 ELSE now]

ClockAfter(tickAt) == IF tickAt # 0 THEN now + 1 ELSE now

Steady(t) == [i \in FillFrom..(FillTo - 1) |-> t]

-----------------------------------------------------------------------------
(* The read path *)

get_daily_stats(alias, faults, clock) ==
    IF "daily" \in faults THEN Err(ApiError(StoreDown))
    ELSE LET data == stats_query(alias, "hour", HourLimit)
             no_of_splits == HourSplits
             no_of_seconds == HourSeconds
         IN Ok(fill_data_gaps(data, no_of_splits, "Hour", no_of_seconds, clock))

get_monthly_stats(alias, faults, clock) ==
    IF "monthly" \in faults THEN Err(ApiError(StoreDown))
    ELSE LET data == stats_query(alias, "day", DayLimit)
             no_of_splits == DaySplits
             no_of_seconds == DaySeconds
         IN Ok(fill_data_gaps(data, no_of_splits, "Day", no_of_seconds, clock))

\* SELECT url, alias FROM websites WHERE alias = $1 ... fetch_one
website_query(alias, faults) ==
    IF "website" \in faults THEN Err(ApiError(StoreDown))
    ELSE IF \E k \in DOMAIN websites : websites[k].alias = alias
         THEN Ok(websites[CHOOSE k \in DOMAIN websites : websites[k].alias = alias])
         ELSE Err(ApiError(RowNotFound))

\* the rows of WHERE websites.alias=$1 AND logs.status!=200, as struct Incident;
\* the statement has no ORDER BY: the rows come in the order of the table
incident_rows(alias) ==
    LET idx == OrderAsc({i \in LogsOf(alias) : logs[i].status # SuccessStatus})
    IN [k \in DOMAIN idx |->
            [time |-> logs[idx[k]].created_at, status |-> logs[idx[k]].status]]

\* #[derive(sqlx::FromRow)]: every field of the struct is read from the column
\* of its name; struct Incident { time, statis } against SELECT ... AS time, status
IncidentFields == {"time", "statis"}
IncidentColumns == {"time", "status"}
from_row(fields, columns, rows) ==
    IF rows = <<>> \/ fields \subseteq columns THEN Ok(rows)
    ELSE Err(ApiError(ColumnNotFound))

incidents_query(alias, faults) ==
    IF "incidents" \in faults THEN Err(ApiError(StoreDown))
    ELSE IF ~parses(IncidentsSql) THEN Err(ApiError(SyntaxError))
    ELSE from_row(IncidentFields, IncidentColumns, incident_rows(alias))

\* the handler with the monthly read's error swallowed (unwrap_or_default)
get_website_by_alias_lenient(alias, faults, clock) ==
    LET found == website_query(alias, faults)
    IN IF ~found.ok THEN found
       ELSE LET last_24_hours_data == get_daily_stats(found.val.alias, faults, clock)
            IN IF ~last_24_hours_data.ok THEN last_24_hours_data
               ELSE LET monthly_data ==
                            get_monthly_stats(found.val.alias, faults, Steady(clock[FillTo - 1]))
                        incidents == incidents_query(alias, faults)
                    IN IF ~incidents.ok THEN incidents
                       ELSE Ok([log |-> [url |-> found.val.url,
                                         alias |-> alias,
                                         data |-> last_24_hours_data.val],
                                incidents |-> incidents.val,
                                monthly_data |-> IF monthly_data.ok
                                                 THEN monthly_data.val ELSE <<>>])

get_website_by_alias(alias, faults, clock) ==
    LET found == website_query(alias, faults)
    IN IF ~found.ok THEN found
       ELSE LET last_24_hours_data == get_daily_stats(found.val.alias, faults, clock)
            IN IF ~last_24_hours_data.ok THEN last_24_hours_data
               ELSE LET monthly_data ==
                            get_monthly_stats(found.val.alias, faults, Steady(clock[FillTo - 1]))
                    IN IF ~monthly_data.ok THEN monthly_data
                       ELSE LET incidents == incidents_query(alias, faults)
                            IN IF ~incidents.ok THEN incidents
                               ELSE Ok([log |-> [url |-> found.val.url,
                                                 alias |-> alias,
                                                 data |-> last_24_hours_data.val],
                                        incidents |-> incidents.val,
                                        monthly_data |-> monthly_data.val])

-----------------------------------------------------------------------------
(* Inputs *)

Endpoints == {Website("https://a.test", "a"), Website("https://b.test", "b")}
Aliases == {"a", "b"}
Statuses == {200, 500}
Steps == {TickPeriod, HourSeconds, DaySeconds}
\* 2024-10-04 13:30:00 UTC
StartTime == 20000 * DaySeconds + 13 * HourSeconds + 1800
\* which reads of one request the store fails
FaultSets == {{}} \cup {{q} : q \in Queries} \cup {Queries}

NoRequest == [handler |-> "none"]

-----------------------------------------------------------------------------
(* check_websites *)

\* `while let Some(website) = res.next().await`: take the next row, or leave
\* the while loop and go round `loop` to interval.tick()
NextWebsite(rows) ==
    IF rows = <<>>
    THEN /\ pc' = "tick"
         /\ res' = <<>>
         /\ website' = None
    ELSE /\ pc' = "send"
         /\ res' = Tail(rows)
         /\ website' = Some(Head(rows))

\* a tick that fires whatever the sweep is doing (one task per tick)
Tick_reentrant ==
    /\ pc \in {"tick", "send", "execute"}
    /\ now >= nextTick
    /\ sweep < MaxSweeps
    /\ pc' = "fetch"
    /\ nextTick' = nextTick + TickPeriod
    /\ sweep' = sweep + 1
    /\ snapshot' = None
    /\ res' = <<>>
    /\ website' = None
    /\ response' = None
    /\ resp' = NoRequest
    /\ UNCHANGED <<now, websites, logs, advances, edits>>

\* interval.tick().await completes; Client::new(); the SELECT is built
Tick ==
    /\ pc = "tick"
    /\ now >= nextTick
    /\ sweep < MaxSweeps
    /\ pc' = "fetch"
    /\ nextTick' = nextTick + TickPeriod
    /\ sweep' = sweep + 1
    /\ snapshot' = None
    /\ res' = <<>>
    /\ website' = None
    /\ response' = None
    /\ resp' = NoRequest
    /\ UNCHANGED <<now, websites, logs, advances, edits>>

\* the SELECT url, alias FROM websites runs; website.unwrap() panics on Err
Fetch(storeOk) ==
    /\ pc = "fetch"
    /\ IF storeOk
       THEN /\ snapshot' = Some(Ok(websites))
            /\ NextWebsite(websites)
       ELSE /\ snapshot' = Some(Err(StoreDown))
            /\ pc' = "panicked"
            /\ UNCHANGED <<res, website>>
    /\ resp' = NoRequest
    /\ UNCHANGED <<now, websites, logs, nextTick, sweep, response, advances, edits>>

\* ctx.get(website.url).send().await.unwrap(): outcome is Some(status) when
\* the endpoint answered and None when the request failed
Send(outcome) ==
    /\ pc = "send"
    /\ IF outcome # None
       THEN /\ response' = Some(Ok(outcome[1]))
            /\ pc' = "execute"
       ELSE /\ response' = Some(Err("reqwest::Error"))
            /\ pc' = "panicked"
    /\ resp' = NoRequest
    /\ UNCHANGED <<now, websites, logs, nextTick, sweep, snapshot, res, website,
                   advances, edits>>

\* a row stamped with a time that is backdated by the sweeps run so far
log_row_backdated(alias, status) ==
    [website |-> alias, created_at |-> now - sweep * TickPeriod,
     status |-> status, sweep |-> sweep]

\* the row INSERT INTO logs (website_alias, status) VALUES ((SELECT id FROM
\* websites where alias = $1), $2) adds; created_at is the store's clock
log_row(alias, status) ==
    [website |-> alias, created_at |-> now, status |-> status, sweep |-> sweep]

\* (SELECT id FROM websites where alias = $1): NULL when the row is gone
website_id(alias) ==
    IF \E k \in DOMAIN websites : websites[k].alias = alias THEN alias ELSE "NULL"

\* the INSERT ... .execute(&db).await.unwrap(); the store may reject the row
Execute(storeOk) ==
    /\ pc = "execute"
    /\ IF storeOk /\ parses(InsertLogSql)
       THEN /\ Len(logs) < MaxLogs
            /\ logs' = Append(logs, log_row(website_id(website[1].alias),
                                            response[1].val))
            /\ NextWebsite(res)
       ELSE /\ pc' = "panicked"
            /\ UNCHANGED <<logs, res, website>>
    /\ resp' = NoRequest
    /\ UNCHANGED <<now, websites, nextTick, sweep, snapshot, response, advances, edits>>

-----------------------------------------------------------------------------
(* The clock, and the requests that change the tables *)

Advance(d) ==
    /\ advances < MaxAdvances
    /\ now' = now + d
    /\ advances' = advances + 1
    /\ resp' = NoRequest
    /\ UNCHANGED <<websites, logs, schedVars, edits>>

create_website(new_website) ==
    /\ edits < MaxEdits
    /\ \A k \in DOMAIN websites : websites[k].alias # new_website.alias
    /\ websites' = Append(websites, new_website)
    /\ resp' = [handler |-> "create_website", alias |-> new_website.alias,
                result |-> Ok("Redirect")]
    /\ edits' = edits + 1
    /\ UNCHANGED <<now, logs, schedVars, advances>>

delete_website(alias) ==
    /\ edits < MaxEdits
    /\ \E k \in DOMAIN websites : websites[k].alias = alias
    /\ logs' = SelectSeq(logs, LAMBDA r : r.website # alias)
    /\ websites' = SelectSeq(websites, LAMBDA w : w.alias # alias)
    /\ resp' = [handler |-> "delete_website", alias |-> alias, result |-> Ok(200)]
    /\ edits' = edits + 1
    /\ UNCHANGED <<now, schedVars, advances>>

-----------------------------------------------------------------------------
(* The read requests *)

\* the clock may step by one second during a request's fill loop; only a step
\* across an hour boundary changes a candidate boundary
TickAts == {0, FillFrom, (FillFrom + FillTo) \div 2, FillTo - 1}

Request(handler, alias, faults, tickAt, result) ==
    /\ resp = NoRequest
    /\ tickAt # 0 => (now + 1) % HourSeconds = 0
    /\ resp' = [handler |-> handler, alias |-> alias, faults |-> faults,
                tickAt |-> tickAt, result |-> result]
    /\ now' = ClockAfter(tickAt)
    /\ UNCHANGED <<advances, edits>>
    /\ UNCHANGED <<websites, logs, schedVars>>

GetDailyStats(alias, faults, tickAt) ==
    Request("get_daily_stats", alias, faults, tickAt,
            get_daily_stats(alias, faults, Clock(tickAt)))

GetMonthlyStats(alias, faults, tickAt) ==
    Request("get_monthly_stats", alias, faults, tickAt,
            get_monthly_stats(alias, faults, Clock(tickAt)))

GetWebsiteByAlias(alias, faults, tickAt) ==
    Request("get_website_by_alias", alias, faults, tickAt,
            get_website_by_alias(alias, faults, Clock(tickAt)))

-----------------------------------------------------------------------------
(* The system *)

Init ==
    /\ now = StartTime
    /\ websites \in {<<>>, <<Website("https://a.test", "a")>>,
                    <<Website("https://a.test", "a"), Website("https://b.test", "b")>>}
    /\ logs = <<>>
    /\ pc = "tick"
    /\ nextTick = now
    /\ sweep = 0
    /\ snapshot = None
    /\ res = <<>>
    /\ website = None
    /\ response = None
    /\ resp = NoRequest
    /\ advances = 0
    /\ edits = 0

Scheduler ==
    \/ Tick
    \/ \E storeOk \in BOOLEAN : Fetch(storeOk)
    \/ \E outcome \in {None} \cup {Some(st) : st \in Statuses} : Send(outcome)
    \/ \E storeOk \in BOOLEAN : Execute(storeOk)

\* the scheduler, the clock and the requests that change the tables
Next ==
    \/ Scheduler
    \/ \E d \in Steps : Advance(d)
    \/ \E w \in Endpoints : create_website(w)
    \/ \E alias \in Aliases : delete_website(alias)

Spec == Init /\ [][Next]_vars

\* the scheduler and the clock, with the read requests served beside them
LiveNext ==
    \/ Scheduler
    \/ \E d \in Steps : Advance(d)
    \/ \E alias \in Aliases : GetDailyStats(alias, {}, 0)
    \/ \E alias \in Aliases : GetWebsiteByAlias(alias, {}, 0)

SpecLive == Init /\ [][LiveNext]_vars

-----------------------------------------------------------------------------
(* The read path over a store drawn from a family of histories of alias    *)
(* "a": one sample in each of `n` consecutive buckets (hours or days) that *)
(* end `back` buckets before the current one, and `total` samples, `up` of *)
(* them successes, in the hour that lies `hoursAgo` hours back; alias "b"  *)
(* has one failed sample in the current minute.                            *)

HistorySizes == {0, 1, 23, 24, 25, 30, 31}
HistoryEnds == {0, 1}
FocusHoursAgo == {0, 2, 40}
AggNows == {StartTime, StartTime + 1799}

stored(alias, t, status) ==
    [website |-> alias, created_at |-> t, status |-> status, sweep |-> 0]

\* the k-th of `total` samples is a success: successes take the odd places first
FocusUp(k, total, up) ==
    LET odd == (total + 1) \div 2
    IN IF k % 2 = 1 THEN (k + 1) \div 2 <= up ELSE odd + (k \div 2) <= up

History(t, field, n, back) ==
    LET width == IF field = "hour" THEN HourSeconds ELSE DaySeconds
    IN {stored("a", date_trunc(field, t) - (back + j) * width + 7, SuccessStatus) :
            j \in 0..(n - 1)}

Focus(t, hoursAgo, total, up) ==
    {stored("a", date_trunc("hour", t) - hoursAgo * HourSeconds + 11 * k,
            IF FocusUp(k, total, up) THEN SuccessStatus ELSE 500) : k \in 1..total}

\* the rows of a table written by sweeps are in the order of their times
RECURSIVE InTimeOrder(_)
InTimeOrder(rows) ==
    IF rows = {} THEN <<>>
    ELSE LET first == CHOOSE r \in rows : \A q \in rows :
                          \/ r.created_at < q.created_at
                          \/ r.created_at = q.created_at /\ r.status <= q.status
         IN <<first>> \o InTimeOrder(rows \ {first})

AggInit ==
    /\ now \in AggNows
    /\ websites = <<Website("https://a.test", "a"), Website("https://b.test", "b")>>
    /\ \E field \in {"hour", "day"}, n \in HistorySizes, back \in HistoryEnds,
          hoursAgo \in FocusHoursAgo, total \in 0..MaxFocus :
          \E up \in 0..total :
             logs = InTimeOrder(History(now, field, n, back)
                                \cup Focus(now, hoursAgo, total, up)
                                \cup {stored("b", now - (now % TickPeriod), 500)})
    /\ pc = "tick"
    /\ nextTick = now
    /\ sweep = 0
    /\ snapshot = None
    /\ res = <<>>
    /\ website = None
    /\ response = None
    /\ resp = NoRequest
    /\ advances = 0
    /\ edits = 0

\* "a" has the drawn history; "c" is not registered and has no sample
ReadAliases == {"a", "c"}

AggNext ==
    \/ \E alias \in ReadAliases, faults \in {{}, {"daily"}}, tickAt \in TickAts :
            GetDailyStats(alias, faults, tickAt)
    \/ \E alias \in ReadAliases, faults \in {{}, {"monthly"}}, tickAt \in TickAts :
            GetMonthlyStats(alias, faults, tickAt)
    \/ \E alias \in ReadAliases, faults \in FaultSets :
            GetWebsiteByAlias(alias, faults, 0)

SpecAgg == AggInit /\ [][AggNext]_vars

-----------------------------------------------------------------------------
(* Vocabulary of the properties *)

HttpStatusCodes == 100..599

IsStats == resp.handler \in {"get_daily_stats", "get_monthly_stats"}
Served == IsStats /\ resp.result.ok
Series == resp.result.val
Field == IF resp.handler = "get_daily_stats" THEN "hour" ELSE "day"
BucketCount == IF resp.handler = "get_daily_stats" THEN HourSplits ELSE DaySplits

\* the samples of the requested alias that fall in the bucket starting at t
InBucket(t) == {i \in LogsOf(resp.alias) : date_trunc(Field, logs[i].created_at) = t}
UpInBucket(t) == {i \in InBucket(t) : logs[i].status = SuccessStatus}

StrictlyDecreasing(series) ==
    \A k \in 1..(Len(series) - 1) : series[k].time > series[k + 1].time

\* the rows of this sweep for one endpoint
SamplesOf(alias) == {i \in DOMAIN logs : logs[i].website = alias /\ logs[i].sweep = sweep}

\* the number of rows of the snapshot the sweep has taken with res.next()
Taken == Len(snapshot[1].val) - Len(res)

InSweep == snapshot # None /\ snapshot[1].ok

-----------------------------------------------------------------------------
(* C1: every series get_daily_stats / get_monthly_stats returns has exactly *)
(* bucket_count points (24 / 30) with strictly decreasing times.            *)
C1_ExactLengthDecreasing ==
    Served => Len(Series) = BucketCount /\ StrictlyDecreasing(Series)

(* C2: a failed probe or a failed sample write of one endpoint does not    *)
(* abort the sweep: every endpoint that follows it in the snapshot has its *)
(* sample of this sweep.  "panicked" is a final state of the task, so what *)
(* has not been written there is never written.                            *)
C2_FailureDoesNotAbortSweep ==
    (pc = "panicked" /\ InSweep) =>
        \A k \in DOMAIN res : SamplesOf(res[k].alias) # {}

(* C3: the scheduler task never reaches a terminated or crashed state.     *)
C3_SchedulerNeverTerminates == pc # "panicked"

(* C4: every endpoint of the snapshot the sweep is done with has exactly   *)
(* one sample of this sweep: with the returned status when it answered,    *)
(* with a sentinel that is no HTTP status when the probe failed.           *)
C4_OneSamplePerEndpoint ==
    InSweep =>
        /\ \A k \in 1..Taken :
              (k < Taken \/ pc = "tick") =>
                 /\ Cardinality(SamplesOf(snapshot[1].val[k].alias)) = 1
                 /\ \A i \in SamplesOf(snapshot[1].val[k].alias) :
                       logs[i].status \in HttpStatusCodes
        /\ (pc = "panicked" /\ response # None /\ ~response[1].ok) =>
              /\ Cardinality(SamplesOf(website[1].alias)) = 1
              /\ \A i \in SamplesOf(website[1].alias) :
                    logs[i].status \notin HttpStatusCodes

(* C5: with no sample of the alias in the store, the series has exactly    *)
(* bucket_count points, all of them None.                                  *)
C5_EmptyStoreAllNone ==
    (Served /\ LogsOf(resp.alias) = {}) =>
        /\ Len(Series) = BucketCount
        /\ \A k \in DOMAIN Series : Series[k].uptime_pct = None

\* the samples of the alias that are no success, as incidents, in time order
ExpectedIncidents(alias) ==
    LET idx == OrderAsc({i \in LogsOf(alias) : logs[i].status # SuccessStatus})
    IN [k \in DOMAIN idx |->
            [time |-> logs[idx[k]].created_at, status |-> logs[idx[k]].status]]

Registered(alias) == \E k \in DOMAIN websites : websites[k].alias = alias

(* C6: the incidents of a registered alias, asked for while the store      *)
(* answers, are its samples with a status other than 200, all of them, in  *)
(* time order, and none with status 200.                                   *)
C6_IncidentsComplete ==
    (resp.handler = "get_website_by_alias" /\ resp.faults = {} /\ Registered(resp.alias)) =>
        /\ resp.result.ok
        /\ resp.result.val.incidents = ExpectedIncidents(resp.alias)

(* C7: a point is None only if no sample of the alias falls in its bucket, *)
(* and the point of a bucket with samples and no success is Some(0).       *)
C7_NoneMeansNoSamples ==
    Served =>
        \A k \in DOMAIN Series :
            /\ Series[k].uptime_pct = None => InBucket(Series[k].time) = {}
            /\ (InBucket(Series[k].time) # {} /\ UpInBucket(Series[k].time) = {}) =>
                  Series[k].uptime_pct = Some(0)

C7_Witness ==
    /\ Served
    /\ \E k \in DOMAIN Series : Series[k].uptime_pct = None
    /\ \E k \in DOMAIN Series :
          /\ InBucket(Series[k].time) # {}
          /\ UpInBucket(Series[k].time) = {}
          /\ Series[k].uptime_pct = Some(0)

(* C8: the point of a bucket with total >= 1 samples, `up` of them         *)
(* successes, is Some(v) with v the floor of 100 * up / total, in 0..100.  *)
C8_FloorPercentage ==
    Served =>
        \A k \in DOMAIN Series :
            LET total == Cardinality(InBucket(Series[k].time))
                up == Cardinality(UpInBucket(Series[k].time))
            IN total >= 1 =>
                  /\ Series[k].uptime_pct # None
                  /\ Series[k].uptime_pct[1] \in 0..100
                  /\ Series[k].uptime_pct[1] * total <= 100 * up
                  /\ 100 * up < (Series[k].uptime_pct[1] + 1) * total

\* a bucket of total = 3, up = 1 is reported as 33
C8_Witness ==
    /\ Served
    /\ \E k \in DOMAIN Series :
          /\ Cardinality(InBucket(Series[k].time)) = 3
          /\ Cardinality(UpInBucket(Series[k].time)) = 1
          /\ Series[k].uptime_pct = Some(33)

\* one endpoint "a", three sweeps, statuses 200, 500, 200 within one hour
Scenario ==
    /\ Len(websites) = 1 /\ websites[1].alias = "a"
    /\ Len(logs) = 3
    /\ \A i \in 1..3 : logs[i].website = "a" /\ logs[i].sweep = i
    /\ <<logs[1].status, logs[2].status, logs[3].status>> = <<200, 500, 200>>
    /\ \A i \in 1..3 : date_trunc("hour", logs[i].created_at)
                           = date_trunc("hour", logs[1].created_at)

C9_HourlyPart ==
    (Scenario /\ resp.handler = "get_daily_stats" /\ resp.alias = "a") =>
        /\ resp.result.ok
        /\ Len(Series) = 24
        /\ \E k \in DOMAIN Series :
              /\ Series[k].time = date_trunc("hour", logs[1].created_at)
              /\ Series[k].uptime_pct = Some(66)
              /\ \A j \in DOMAIN Series : j # k => Series[j].uptime_pct = None

C9_IncidentsPart ==
    (Scenario /\ resp.handler = "get_website_by_alias" /\ resp.alias = "a") =>
        /\ resp.result.ok
        /\ resp.result.val.incidents =
              <<[time |-> logs[2].created_at, status |-> 500]>>

(* C9: in the scenario, the incidents of "a" are the one 500 sample, and   *)
(* the hourly series has 24 points: 66 for the bucket of the three samples *)
(* and None for the other 23.                                              *)
C9_Scenario == C9_IncidentsPart /\ C9_HourlyPart

(* C10: a request one of whose store reads fails returns the error of the  *)
(* store and nothing else: no series, whole or partial, reaches the caller. *)
C10_ReadFailureNoSeries ==
    (/\ resp.handler \in {"get_daily_stats", "get_monthly_stats", "get_website_by_alias"}
     /\ resp.faults # {}
     /\ resp.handler = "get_website_by_alias" =>
            Registered(resp.alias) \/ "website" \in resp.faults) =>
        /\ resp.result = Err(ApiError(StoreDown))
        /\ into_response(resp.result.err) =
              [status |-> 500, body |-> <<"SQL Error: ", StoreDown>>]

\* the monthly read fails after the hourly series was built
C10_Witness ==
    /\ resp.handler = "get_website_by_alias"
    /\ resp.faults = {"monthly"}
    /\ get_daily_stats(resp.alias, resp.faults, Steady(now)).ok
    /\ ~resp.result.ok

-----------------------------------------------------------------------------
(* Vocabulary of the properties of the rows and of the gap filling *)

Width == IF resp.handler = "get_daily_stats" THEN HourSeconds ELSE DaySeconds
Limit == IF resp.handler = "get_daily_stats" THEN HourLimit ELSE DayLimit

\* the rows the store returned to the served request
Rows == stats_query(resp.alias, Field, Limit)
RowTimes == {Rows[k].time : k \in DOMAIN Rows}
SeriesTimes == {Series[k].time : k \in DOMAIN Series}

\* the start times of all buckets that hold a sample of the alias
BucketsOf(alias) == {date_trunc(Field, logs[i].created_at) : i \in LogsOf(alias)}

\* the request read the clock once: it did not step during the fill loop
SteadyClock == resp.tickAt = 0

(* C11: with samples in more than bucket_count buckets, the rows obtained  *)
(* from the store are the bucket_count latest buckets.                     *)
C11_LatestBuckets ==
    (Served /\ Cardinality(BucketsOf(resp.alias)) > BucketCount) =>
        /\ Cardinality(RowTimes) = BucketCount
        /\ \A t \in RowTimes : \A u \in BucketsOf(resp.alias) \ RowTimes : u < t

(* C12: when the store returns bucket_count or more rows, the series is    *)
(* exactly those rows, no placeholder among them, in descending time order. *)
C12_FullRowsDescending ==
    (Served /\ Len(Rows) >= BucketCount) =>
        /\ Len(Series) = Len(Rows)
        /\ \A k \in DOMAIN Series : Series[k].uptime_pct # None
        /\ \A k \in DOMAIN Rows : \E j \in DOMAIN Series : Series[j] = Rows[k]
        /\ StrictlyDecreasing(Series)

\* bucket_count consecutive boundaries counting back from the bucket of `now`,
\* the first of them `first` buckets back
Boundaries(first, count) ==
    {date_trunc(Field, now) - (first + j) * Width : j \in 0..(count - 1)}

(* C13: with fewer than bucket_count rows, the gap filling examines        *)
(* bucket_count consecutive candidate boundaries (24 hourly, 30 daily):    *)
(* each of them is in the series, as a row or as a placeholder, and the    *)
(* series holds nothing else but the rows.                                 *)
C13_ExaminesBucketCount ==
    (Served /\ SteadyClock /\ Len(Rows) < BucketCount) =>
        \E first \in {0, 1} :
            SeriesTimes = RowTimes \cup Boundaries(first, BucketCount)

-----------------------------------------------------------------------------
(* Properties of the sweeps *)

(* C14: sweeps never overlap: a sweep starts only when no sweep is in      *)
(* progress (the loop is back at interval.tick() with no row in hand), so  *)
(* a tick that falls due during a sweep is deferred to the sweep's end.    *)
C14_SweepsNeverOverlap ==
    [][sweep' # sweep =>
          /\ sweep' = sweep + 1
          /\ pc = "tick"
          /\ res = <<>>
          /\ website = None
          /\ now >= nextTick]_vars

\* a sweep wrote a sample after the deadline of the tick that follows it,
\* and a later sweep has started
C14_Witness ==
    \E i \in DOMAIN logs :
        /\ logs[i].sweep < sweep
        /\ logs[i].created_at >= StartTime + logs[i].sweep * TickPeriod

\* the endpoints of the snapshot that the running sweep has taken so far
Probed == SubSeq(snapshot[1].val, 1, Taken)

(* C15: a sweep probes and records exactly the endpoints of the list it    *)
(* fetched at its start: the rows it has not probed yet are the rest of    *)
(* that list whatever is created or deleted meanwhile, and every sample    *)
(* of the sweep is recorded for one of the endpoints it probed.            *)
C15_SnapshotProbedAndRecorded ==
    InSweep =>
        /\ res = SubSeq(snapshot[1].val, Taken + 1, Len(snapshot[1].val))
        /\ website # None => website[1] = snapshot[1].val[Taken]
        /\ \A i \in DOMAIN logs :
               logs[i].sweep = sweep =>
                   \E k \in DOMAIN Probed : Probed[k].alias = logs[i].website

(* C16: for every alias, the samples are in the table in non-decreasing    *)
(* observation time: a sample written later is never observed earlier.     *)
C16_NonDecreasingPerAlias ==
    \A i, j \in DOMAIN logs :
        (i < j /\ logs[i].website = logs[j].website) =>
            logs[i].created_at <= logs[j].created_at

\* two sweeps each wrote a sample of the same endpoint, at different times
C16_Witness ==
    \E i, j \in DOMAIN logs :
        /\ i < j
        /\ logs[i].website = logs[j].website
        /\ logs[i].website \in Aliases
        /\ logs[i].sweep < logs[j].sweep
        /\ logs[i].created_at < logs[j].created_at

-----------------------------------------------------------------------------
(* Properties of the series, continued *)

\* the series a call of the served handler returns when it reads the clock at t
SeriesAt(t) ==
    IF resp.handler = "get_daily_stats"
    THEN get_daily_stats(resp.alias, resp.faults, Steady(t))
    ELSE get_monthly_stats(resp.alias, resp.faults, Steady(t))

CurrentBucket == date_trunc(Field, now)
Placeholders == {k \in DOMAIN Series : Series[k].uptime_pct = None}

(* C17: a second call for the same alias and granularity, made anywhere in *)
(* the bucket window of the first (at its first or at its last second) and *)
(* on the same samples, returns the series the first call returned.        *)
C17_Idempotent ==
    (Served /\ SteadyClock) =>
        \A t \in {CurrentBucket, CurrentBucket + Width - 1} :
            SeriesAt(t) = resp.result

\* a call strictly inside its window whose series has rows and placeholders
C17_Witness ==
    /\ Served /\ SteadyClock
    /\ now \notin {CurrentBucket, CurrentBucket + Width - 1}
    /\ Placeholders # {}
    /\ Placeholders # DOMAIN Series

(* C18: placeholders are synthesized only for boundaries strictly earlier  *)
(* than the bucket containing now; a point for the current bucket is in    *)
(* the series only if the store returned a row for it, so there is none    *)
(* when the alias has no sample in the current bucket.                     *)
C18_NoPlaceholderForCurrentBucket ==
    Served =>
        /\ \A k \in Placeholders : Series[k].time < CurrentBucket
        /\ CurrentBucket \in SeriesTimes => CurrentBucket \in RowTimes
        /\ InBucket(CurrentBucket) = {} => CurrentBucket \notin SeriesTimes

\* no sample in the current bucket; the newest point is the placeholder of
\* the bucket before it
C18_Witness ==
    /\ Served
    /\ InBucket(CurrentBucket) = {}
    /\ Series # <<>>
    /\ Series[1] = WebsiteStats(CurrentBucket - Width, None)

(* C19: the gap filling drops and alters no row of the store: every row is *)
(* in the series exactly once, unchanged, and every other point of the     *)
(* series is a placeholder at a time no row has.                           *)
C19_RowsPreserved ==
    Served =>
        LET rows == Rows
            times == {rows[k].time : k \in DOMAIN rows}
        IN /\ \A k \in DOMAIN rows :
                  /\ Cardinality({j \in DOMAIN Series : Series[j] = rows[k]}) = 1
                  /\ Cardinality({j \in DOMAIN Series : Series[j].time = rows[k].time}) = 1
           /\ \A j \in DOMAIN Series :
                  (\A k \in DOMAIN rows : Series[j] # rows[k]) =>
                      /\ Series[j].uptime_pct = None
                      /\ Series[j].time \notin times

\* rows with a percentage below 100 among them, and placeholders added to them
C19_Witness ==
    /\ Served
    /\ Rows # <<>>
    /\ \E k \in DOMAIN Rows : Rows[k].uptime_pct \notin {None, Some(100)}
    /\ Len(Series) > Len(Rows)

====
